---- MODULE Spec2Model ----
(***************************************************************************)
(* Model of ContextAwareMedicationAllergyAlerts.py: four rule checkers     *)
(* over static knowledge tables and the aggregator that concatenates them. *)
(*                                                                         *)
(* Python values are modelled as follows.                                  *)
(*   - an element of a patient collection is [t, v]: t is its Python type  *)
(*     ("str", "int", "list") and v its text;                              *)
(*   - a collection argument is [t, v]: t = "list" with v the sequence of  *)
(*     elements, or t = "None";                                            *)
(*   - a patient is a function from the keys that are present to values;   *)
(*   - a str built by an f-string is the sequence of its pieces, a         *)
(*     severity contributing one piece per character;                      *)
(*   - a call ends by returning a list or by raising an exception.         *)
(***************************************************************************)
EXTENDS Integers, Sequences, FiniteSets, TLC

VARIABLES fn, args, pc, ret, exc

vars == <<fn, args, pc, ret, exc>>

(***************************************************************************)
(* Bounds of the explored inputs.                                          *)
(***************************************************************************)
MaxMeds == 2
MaxInteractionMeds == 3
MaxItems == 2
MaxPatientItems == 1

(***************************************************************************)
(* Python values.                                                          *)
(***************************************************************************)
Str(s) == [t |-> "str", v |-> s]
Int42 == [t |-> "int", v |-> "42"]
ListElem == [t |-> "list", v |-> "[]"]
PyList(s) == [t |-> "list", v |-> s]
PyNone == [t |-> "None", v |-> <<>>]

Range(s) == {s[i] : i \in 1..Len(s)}

IsStr(x) == x.t = "str"
\* hash(x): lists are unhashable, str and int are hashable
Hashable(x) == x.t # "list"
\* iter(c): None is not iterable
Iterable(c) == c.t = "list"

\* x in d, for a dict d with str keys: hashes x, then compares
InDict(x, d) == IsStr(x) /\ x.v \in DOMAIN d
\* x in l, for a list l of str: compares only
InList(x, l) == IsStr(x) /\ x.v \in Range(l)

(***************************************************************************)
(* str.upper(), character by character.                                    *)
(***************************************************************************)
Lower == <<"a","b","c","d","e","f","g","h","i","j","k","l","m",
           "n","o","p","q","r","s","t","u","v","w","x","y","z">>
UpperLetters == <<"A","B","C","D","E","F","G","H","I","J","K","L","M",
                  "N","O","P","Q","R","S","T","U","V","W","X","Y","Z">>
UpperChar(c) ==
    IF \E i \in 1..Len(Lower) : Lower[i] = c
    THEN UpperLetters[CHOOSE i \in 1..Len(Lower) : Lower[i] = c]
    ELSE c
upper(s) == [i \in 1..Len(s) |-> UpperChar(s[i])]

(***************************************************************************)
(* Knowledge tables.                                                       *)
(***************************************************************************)
high == <<"h","i","g","h">>
moderate == <<"m","o","d","e","r","a","t","e">>
critical == <<"c","r","i","t","i","c","a","l">>

GENETIC_ALERTS ==
    ("CYP2C19 Poor Metabolizer" :>
        ("clopidogrel" :> [severity |-> high,
            recommendation |-> "Consider alternative antiplatelet therapy (e.g., prasugrel, ticagrelor)."]))
    @@
    ("HLA-B*5701 Positive" :>
        ("abacavir" :> [severity |-> critical,
            recommendation |-> "Contraindicated. Do not prescribe abacavir."]))

ALLERGY_ALERTS ==
    ("penicillin" :> [medications |-> <<"amoxicillin", "ampicillin", "penicillin">>,
                      severity |-> high,
                      cross_reactivity |-> <<"cephalosporins">>])
    @@
    ("sulfa" :> [medications |-> <<"sulfamethoxazole", "sulfasalazine">>,
                 severity |-> moderate,
                 cross_reactivity |-> <<>>])

\* a dict iterates in insertion order: the items, in that order
DRUG_INTERACTIONS ==
    << [drug1 |-> "warfarin", drug2 |-> "amiodarone",
        severity |-> high,
        warning |-> "Increased bleeding risk",
        recommendation |-> "Monitor INR closely and adjust warfarin dose as needed."],
       [drug1 |-> "simvastatin", drug2 |-> "clarithromycin",
        severity |-> critical,
        warning |-> "Risk of rhabdomyolysis",
        recommendation |-> "Avoid combination; consider alternative statin or antibiotic."] >>

COMORBIDITY_ALERTS ==
    ("chronic_kidney_disease" :> [medications |-> <<"metformin", "NSAIDs">>,
                                  severity |-> high,
                                  recommendation |-> "Avoid or adjust dose; monitor renal function."])
    @@
    ("elderly" :> [medications |-> <<"benzodiazepines", "anticholinergics">>,
                   severity |-> moderate,
                   recommendation |-> "Use with caution; increased risk of falls and confusion."])

ElderlyAge == 65

(***************************************************************************)
(* Outcome of a call or of a block of statements: the alerts it appended,  *)
(* or the exception it raised.  Then is alerts.append / alerts +=.         *)
(***************************************************************************)
Ok(alerts) == [exc |-> "none", alerts |-> alerts]
Raise(e) == [exc |-> e, alerts |-> <<>>]
\* a slip: = for +=
Then_assign(r1, r2) ==
    IF r1.exc # "none" THEN r1
    ELSE IF r2.exc # "none" THEN r2
    ELSE Ok(r2.alerts)

\* r1 then r2: an exception of r1 skips r2
Then(r1, r2) ==
    IF r1.exc # "none" THEN r1
    ELSE IF r2.exc # "none" THEN r2
    ELSE Ok(r1.alerts \o r2.alerts)

(***************************************************************************)
(* The f-strings.                                                          *)
(***************************************************************************)
\* a slip: the severity as stored, upper() forgotten
GeneticAlert_as_stored(marker, med, info) ==
    <<"[">> \o info.severity \o
    <<"] ", "Genetic", " alert: ", marker, " affects ", med, ". ",
      "Recommendation: ", info.recommendation>>

GeneticAlert(marker, med, info) ==
    <<"[">> \o upper(info.severity) \o
    <<"] ", "Genetic", " alert: ", marker, " affects ", med, ". ",
      "Recommendation: ", info.recommendation>>

AllergyAlert(allergy, med, allergy_info) ==
    <<"[">> \o upper(allergy_info.severity) \o
    <<"] ", "Allergy", " alert: ", allergy, " allergy - avoid ", med, ".">>

\* a slip: the entry's severity in the cross-reactivity alert
CrossReactivityAlert_entry_severity(allergy, med, allergy_info) ==
    <<"[">> \o upper(allergy_info.severity) \o
    <<"] ", "Cross-reactivity", " alert: ", allergy,
      " allergy may cross-react with ", med, ".">>

CrossReactivityAlert(allergy, med, allergy_info) ==
    <<"[", "M","O","D","E","R","A","T","E",
      "] ", "Cross-reactivity", " alert: ", allergy,
      " allergy may cross-react with ", med, ".">>

InteractionAlert(item) ==
    <<"[">> \o upper(item.severity) \o
    <<"] ", "Interaction", " alert: ", item.drug1, " + ", item.drug2, " - ",
      item.warning, ". ", "Recommendation: ", item.recommendation>>

ComorbidityAlert(comorb, med, info) ==
    <<"[">> \o upper(info.severity) \o
    <<"] ", "Comorbidity", " alert: ", comorb, " with ", med, ". ",
      "Recommendation: ", info.recommendation>>

\* a slip: the second line of the f-string forgotten
AgeAlert_no_recommendation(med, elderly_info) ==
    <<"[">> \o upper(elderly_info.severity) \o
    <<"] ", "Age", " alert: ", "Elderly patient with ", med, ". ">>

AgeAlert(med, elderly_info) ==
    <<"[">> \o upper(elderly_info.severity) \o
    <<"] ", "Age", " alert: ", "Elderly patient with ", med, ". ",
      "Recommendation: ", elderly_info.recommendation>>

(***************************************************************************)
(* check_genetic_alerts                                                    *)
(***************************************************************************)
\* if med in GENETIC_ALERTS[marker]: alerts.append(...)
GeneticMedBody(marker, med) ==
    IF ~Hashable(med) THEN Raise("TypeError")
    ELSE IF InDict(med, GENETIC_ALERTS[marker])
         THEN Ok(<<GeneticAlert(marker, med.v, GENETIC_ALERTS[marker][med.v])>>)
         ELSE Ok(<<>>)

RECURSIVE GeneticMedLoop(_, _, _)
\* for med in medications, from the i-th on
GeneticMedLoop(marker, meds, i) ==
    IF i > Len(meds) THEN Ok(<<>>)
    ELSE Then(GeneticMedBody(marker, meds[i]), GeneticMedLoop(marker, meds, i + 1))

\* if marker in GENETIC_ALERTS: for med in medications: ...
GeneticMarkerBody(marker, medications) ==
    IF ~Hashable(marker) THEN Raise("TypeError")
    ELSE IF InDict(marker, GENETIC_ALERTS)
         THEN IF ~Iterable(medications) THEN Raise("TypeError")
              ELSE GeneticMedLoop(marker.v, medications.v, 1)
         ELSE Ok(<<>>)

RECURSIVE GeneticMarkerLoop(_, _, _)
\* for marker in genetic_info, from the i-th on
GeneticMarkerLoop(markers, medications, i) ==
    IF i > Len(markers) THEN Ok(<<>>)
    ELSE Then(GeneticMarkerBody(markers[i], medications),
              GeneticMarkerLoop(markers, medications, i + 1))

check_genetic_alerts(genetic_info, medications) ==
    IF ~Iterable(genetic_info) THEN Raise("TypeError")
    ELSE GeneticMarkerLoop(genetic_info.v, medications, 1)

(***************************************************************************)
(* check_allergy_alerts                                                    *)
(***************************************************************************)
\* the two independent ifs of the inner loop body
AllergyMedBody(allergy, med) ==
    LET allergy_info == ALLERGY_ALERTS[allergy] IN
    Ok((IF InList(med, allergy_info.medications)
        THEN <<AllergyAlert(allergy, med.v, allergy_info)>> ELSE <<>>)
       \o
       (IF InList(med, allergy_info.cross_reactivity)
        THEN <<CrossReactivityAlert(allergy, med.v, allergy_info)>> ELSE <<>>))

RECURSIVE AllergyMedLoop(_, _, _)
\* for med in medications, from the i-th on
AllergyMedLoop(allergy, meds, i) ==
    IF i > Len(meds) THEN Ok(<<>>)
    ELSE Then(AllergyMedBody(allergy, meds[i]), AllergyMedLoop(allergy, meds, i + 1))

\* if allergy in ALLERGY_ALERTS: for med in medications: ...
AllergyBody(allergy, medications) ==
    IF ~Hashable(allergy) THEN Raise("TypeError")
    ELSE IF InDict(allergy, ALLERGY_ALERTS)
         THEN IF ~Iterable(medications) THEN Raise("TypeError")
              ELSE AllergyMedLoop(allergy.v, medications.v, 1)
         ELSE Ok(<<>>)

RECURSIVE AllergyLoop(_, _, _)
\* for allergy in allergies, from the i-th on
AllergyLoop(allergies, medications, i) ==
    IF i > Len(allergies) THEN Ok(<<>>)
    ELSE Then(AllergyBody(allergies[i], medications),
              AllergyLoop(allergies, medications, i + 1))

check_allergy_alerts(allergies, medications) ==
    IF ~Iterable(allergies) THEN Raise("TypeError")
    ELSE AllergyLoop(allergies.v, medications, 1)

(***************************************************************************)
(* check_drug_interactions                                                 *)
(***************************************************************************)
\* a slip: or for and
InteractionMatches_either(item, meds) ==
    Str(item.drug1) \in meds \/ Str(item.drug2) \in meds

\* if drug1 in meds and drug2 in meds, meds being the set of the medications
InteractionMatches(item, meds) ==
    Str(item.drug1) \in meds /\ Str(item.drug2) \in meds

RECURSIVE InteractionLoop(_, _)
\* for (drug1, drug2), info in DRUG_INTERACTIONS.items(), from the i-th on
InteractionLoop(meds, i) ==
    IF i > Len(DRUG_INTERACTIONS) THEN <<>>
    ELSE (IF InteractionMatches(DRUG_INTERACTIONS[i], meds)
          THEN <<InteractionAlert(DRUG_INTERACTIONS[i])>> ELSE <<>>)
         \o InteractionLoop(meds, i + 1)

check_drug_interactions(medications) ==
    \* meds = set(medications) iterates the argument and hashes every element
    IF ~Iterable(medications) THEN Raise("TypeError")
    ELSE IF \E x \in Range(medications.v) : ~Hashable(x) THEN Raise("TypeError")
    ELSE Ok(InteractionLoop(Range(medications.v), 1))

(***************************************************************************)
(* check_comorbidity_alerts                                                *)
(***************************************************************************)
RECURSIVE ComorbidityMedLoop(_, _, _)
\* for med in medications: if med in info['medications']: ..., from the i-th on
ComorbidityMedLoop(comorb, meds, i) ==
    IF i > Len(meds) THEN <<>>
    ELSE (IF InList(meds[i], COMORBIDITY_ALERTS[comorb].medications)
          THEN <<ComorbidityAlert(comorb, meds[i].v, COMORBIDITY_ALERTS[comorb])>>
          ELSE <<>>)
         \o ComorbidityMedLoop(comorb, meds, i + 1)

\* if comorb in COMORBIDITY_ALERTS: for med in medications: ...
ComorbidityBody(comorb, medications) ==
    IF ~Hashable(comorb) THEN Raise("TypeError")
    ELSE IF InDict(comorb, COMORBIDITY_ALERTS)
         THEN IF ~Iterable(medications) THEN Raise("TypeError")
              ELSE Ok(ComorbidityMedLoop(comorb.v, medications.v, 1))
         ELSE Ok(<<>>)

RECURSIVE ComorbidityLoop(_, _, _)
\* for comorb in comorbidities, from the i-th on
ComorbidityLoop(comorbs, medications, i) ==
    IF i > Len(comorbs) THEN Ok(<<>>)
    ELSE Then(ComorbidityBody(comorbs[i], medications),
              ComorbidityLoop(comorbs, medications, i + 1))

RECURSIVE AgeMedLoop(_, _)
\* for med in medications: if med in elderly_info['medications']: ...
AgeMedLoop(meds, i) ==
    IF i > Len(meds) THEN <<>>
    ELSE (IF InList(meds[i], COMORBIDITY_ALERTS["elderly"].medications)
          THEN <<AgeAlert(meds[i].v, COMORBIDITY_ALERTS["elderly"])>>
          ELSE <<>>)
         \o AgeMedLoop(meds, i + 1)

\* a slip: > for >=
IsElderly_over(age) == age > ElderlyAge

\* if age >= 65
IsElderly(age) == age >= ElderlyAge

\* the age block: COMORBIDITY_ALERTS.get('elderly') is a non-empty dict
AgeRule(medications, age) ==
    IF IsElderly(age) /\ "elderly" \in DOMAIN COMORBIDITY_ALERTS
    THEN IF ~Iterable(medications) THEN Raise("TypeError")
         ELSE Ok(AgeMedLoop(medications.v, 1))
    ELSE Ok(<<>>)

\* a change: no age rule for a patient already listed as elderly
check_comorbidity_alerts_dedup(comorbidities, medications, age) ==
    IF ~Iterable(comorbidities) THEN Raise("TypeError")
    ELSE Then(ComorbidityLoop(comorbidities.v, medications, 1),
              IF Str("elderly") \in Range(comorbidities.v) THEN Ok(<<>>)
              ELSE AgeRule(medications, age))

check_comorbidity_alerts(comorbidities, medications, age) ==
    IF ~Iterable(comorbidities) THEN Raise("TypeError")
    ELSE Then(ComorbidityLoop(comorbidities.v, medications, 1),
              AgeRule(medications, age))

(***************************************************************************)
(* generate_contextual_alerts                                              *)
(***************************************************************************)
\* dict.get(key, default)
get(patient, key, default) ==
    IF key \in DOMAIN patient THEN patient[key] ELSE default

\* a slip: the allergy checker called before the genetic checker
generate_contextual_alerts_allergy_first(patient) ==
    Then(Then(Then(
        check_allergy_alerts(get(patient, "allergies", PyList(<<>>)),
                             get(patient, "medications", PyList(<<>>))),
        check_genetic_alerts(get(patient, "genetic_info", PyList(<<>>)),
                             get(patient, "medications", PyList(<<>>)))),
        check_drug_interactions(get(patient, "medications", PyList(<<>>)))),
        check_comorbidity_alerts(get(patient, "comorbidities", PyList(<<>>)),
                                 get(patient, "medications", PyList(<<>>)),
                                 get(patient, "age", 0)))

\* alerts = []; four times alerts += checker(...); return alerts
generate_contextual_alerts(patient) ==
    Then(Then(Then(
        check_genetic_alerts(get(patient, "genetic_info", PyList(<<>>)),
                             get(patient, "medications", PyList(<<>>))),
        check_allergy_alerts(get(patient, "allergies", PyList(<<>>)),
                             get(patient, "medications", PyList(<<>>)))),
        check_drug_interactions(get(patient, "medications", PyList(<<>>)))),
        check_comorbidity_alerts(get(patient, "comorbidities", PyList(<<>>)),
                                 get(patient, "medications", PyList(<<>>)),
                                 get(patient, "age", 0)))

(***************************************************************************)
(* The inputs explored: every list up to the bounds over a few known and   *)
(* unknown names, an int and a list as elements that are not strings.      *)
(***************************************************************************)
ListsUpTo(S, n) == UNION {[1..k -> S] : k \in 0..n}
Strs(S) == {Str(s) : s \in S}
NonStrings == {Int42, ListElem}

MarkerInputs ==
    Strs({"CYP2C19 Poor Metabolizer", "HLA-B*5701 Positive", "BRCA1"}) \cup NonStrings
GeneticMedInputs == Strs({"clopidogrel", "abacavir", "aspirin"}) \cup NonStrings
AllergyInputs == Strs({"penicillin", "sulfa", "latex"}) \cup NonStrings
AllergyMedInputs ==
    Strs({"amoxicillin", "penicillin", "cephalosporins", "sulfamethoxazole", "aspirin"})
    \cup NonStrings
InteractionMedInputs ==
    Strs({"warfarin", "amiodarone", "simvastatin", "clarithromycin", "aspirin"})
    \cup NonStrings
ComorbidityInputs ==
    Strs({"chronic_kidney_disease", "elderly", "diabetes"}) \cup {ListElem}
ComorbidityMedInputs ==
    Strs({"metformin", "benzodiazepines", "anticholinergics", "aspirin"}) \cup {Int42}
AgeInputs == {-1, 0, ElderlyAge - 1, ElderlyAge, ElderlyAge + 1}

\* the patient of the example under __main__
ExamplePatient ==
    [genetic_info |-> PyList(<<Str("CYP2C19 Poor Metabolizer")>>),
     allergies |-> PyList(<<Str("penicillin")>>),
     medications |-> PyList(<<Str("clopidogrel"), Str("amoxicillin"), Str("warfarin"),
                              Str("amiodarone"), Str("benzodiazepines")>>),
     comorbidities |-> PyList(<<Str("chronic_kidney_disease")>>),
     age |-> 70]

\* a key of the patient dict: absent, or present with one of the values
Absent == "absent"
Field(key, value) == IF value = [t |-> Absent, v |-> <<>>] THEN <<>> ELSE key :> value
Options(S, n) == {PyList(l) : l \in ListsUpTo(S, n)} \cup {[t |-> Absent, v |-> <<>>]}
PatientMedInputs ==
    Strs({"clopidogrel", "amoxicillin", "warfarin", "amiodarone", "benzodiazepines"})
    \cup {Int42}
PatientAgeInputs == {ElderlyAge - 1, ElderlyAge}

PatientInputs ==
    {ExamplePatient} \cup
    { Field("genetic_info", g) @@ Field("allergies", a) @@ Field("medications", m)
        @@ Field("comorbidities", c) @@ (IF hasAge THEN "age" :> age ELSE <<>>) :
        g \in Options(Strs({"CYP2C19 Poor Metabolizer"}), MaxPatientItems),
        a \in Options(Strs({"penicillin"}), MaxPatientItems),
        m \in Options(PatientMedInputs, MaxMeds) \cup {PyNone},
        c \in Options(Strs({"chronic_kidney_disease", "elderly"}), MaxPatientItems),
        age \in PatientAgeInputs, hasAge \in BOOLEAN }

(***************************************************************************)
(* A call of one of the five functions: Init is the call about to run.     *)
(***************************************************************************)
Called(f, a) ==
    /\ fn = f
    /\ args = a
    /\ pc = "called"
    /\ ret = <<>>
    /\ exc = "none"

Init ==
    \/ \E g \in ListsUpTo(MarkerInputs, MaxItems), m \in ListsUpTo(GeneticMedInputs, MaxMeds) :
          Called("check_genetic_alerts",
                 [genetic_info |-> PyList(g), medications |-> PyList(m)])
    \/ \E a \in ListsUpTo(AllergyInputs, MaxItems), m \in ListsUpTo(AllergyMedInputs, MaxMeds) :
          Called("check_allergy_alerts",
                 [allergies |-> PyList(a), medications |-> PyList(m)])
    \/ \E m \in ListsUpTo(InteractionMedInputs, MaxInteractionMeds) :
          Called("check_drug_interactions", [medications |-> PyList(m)])
    \/ \E c \in ListsUpTo(ComorbidityInputs, MaxItems),
          m \in ListsUpTo(ComorbidityMedInputs, MaxMeds), age \in AgeInputs :
          Called("check_comorbidity_alerts",
                 [comorbidities |-> PyList(c), medications |-> PyList(m), age |-> age])
    \/ \E p \in PatientInputs :
          Called("generate_contextual_alerts", [patient |-> p])

\* the call ends: it returns its list, or raises
Finish(r) ==
    /\ pc' = IF r.exc = "none" THEN "returned" ELSE "raised"
    /\ ret' = r.alerts
    /\ exc' = r.exc
    /\ UNCHANGED <<fn, args>>

RunGenetic ==
    /\ pc = "called" /\ fn = "check_genetic_alerts"
    /\ Finish(check_genetic_alerts(args.genetic_info, args.medications))

RunAllergy ==
    /\ pc = "called" /\ fn = "check_allergy_alerts"
    /\ Finish(check_allergy_alerts(args.allergies, args.medications))

RunInteractions ==
    /\ pc = "called" /\ fn = "check_drug_interactions"
    /\ Finish(check_drug_interactions(args.medications))

RunComorbidity ==
    /\ pc = "called" /\ fn = "check_comorbidity_alerts"
    /\ Finish(check_comorbidity_alerts(args.comorbidities, args.medications, args.age))

RunGenerate ==
    /\ pc = "called" /\ fn = "generate_contextual_alerts"
    /\ Finish(generate_contextual_alerts(args.patient))

Next == RunGenetic \/ RunAllergy \/ RunInteractions \/ RunComorbidity \/ RunGenerate

Spec == Init /\ [][Next]_vars

(***************************************************************************)
(* Reading an alert back: its severity, its category, its pieces.          *)
(***************************************************************************)
Categories ==
    {"Genetic", "Allergy", "Cross-reactivity", "Interaction", "Comorbidity", "Age"}

\* the position of the piece that closes the severity bracket
CloseAt(a) == CHOOSE p \in 1..Len(a) : a[p] = "] " /\ \A q \in 1..(p - 1) : a[q] # "] "
SeverityOf(a) == SubSeq(a, 2, CloseAt(a) - 1)
CategoryOf(a) == a[CloseAt(a) + 1]
\* the pieces after "<Category> alert: "
DetailsOf(a) == SubSeq(a, CloseAt(a) + 3, Len(a))
HasRecommendation(a) == \E k \in 1..(Len(a) - 1) : a[k] = "Recommendation: "
RecommendationOf(a) == a[1 + CHOOSE k \in 1..(Len(a) - 1) : a[k] = "Recommendation: "]

\* '[SEVERITY] <Category> alert: <details>'
HasAlertHead(a) ==
    /\ Len(a) >= 5
    /\ a[1] = "["
    /\ \E p \in 3..(Len(a) - 3) :
          /\ a[p] = "] "
          /\ \A q \in 2..(p - 1) : a[q] \in Range(UpperLetters)
          /\ a[p + 1] \in Categories
          /\ a[p + 2] = " alert: "

Occurrences(l, x) == Cardinality({i \in 1..Len(l) : l[i] = x})
Count(alerts, P(_)) == Cardinality({i \in 1..Len(alerts) : P(alerts[i])})
AllStrings(l) == \A i \in 1..Len(l) : IsStr(l[i])

Returned(f) == fn = f /\ pc = "returned"
Ended(f) == fn = f /\ pc # "called"

\* the rank of a category in the order genetic, allergy, interaction, comorbidity/age
CategoryRank(c) ==
    CASE c = "Genetic" -> 1
      [] c \in {"Allergy", "Cross-reactivity"} -> 2
      [] c = "Interaction" -> 3
      [] c \in {"Comorbidity", "Age"} -> 4

(***************************************************************************)
(* C1: the list generate_contextual_alerts returns is the concatenation of *)
(* the genetic, allergy, interaction and comorbidity/age alerts of the     *)
(* patient's fields (empty list / 0 for an absent field), in this order,   *)
(* so that the categories never go back in the order genetic, allergy,     *)
(* interaction, comorbidity/age.                                           *)
(***************************************************************************)
C1_AggregateIsOrderedConcatenation ==
    Returned("generate_contextual_alerts") =>
        LET p == args.patient
            coll(k) == IF k \in DOMAIN p THEN p[k] ELSE PyList(<<>>)
            age == IF "age" \in DOMAIN p THEN p["age"] ELSE 0
            g == check_genetic_alerts(coll("genetic_info"), coll("medications")).alerts
            a == check_allergy_alerts(coll("allergies"), coll("medications")).alerts
            i == check_drug_interactions(coll("medications")).alerts
            c == check_comorbidity_alerts(coll("comorbidities"), coll("medications"), age).alerts
        IN  /\ ret = g \o a \o i \o c
            /\ Len(ret) = Len(g) + Len(a) + Len(i) + Len(c)
            /\ \A x \in 1..Len(g) : CategoryOf(g[x]) = "Genetic"
            /\ \A x \in 1..Len(a) : CategoryOf(a[x]) \in {"Allergy", "Cross-reactivity"}
            /\ \A x \in 1..Len(i) : CategoryOf(i[x]) = "Interaction"
            /\ \A x \in 1..Len(c) : CategoryOf(c[x]) \in {"Comorbidity", "Age"}
            /\ \A x, y \in 1..Len(ret) :
                  x < y => CategoryRank(CategoryOf(ret[x])) <= CategoryRank(CategoryOf(ret[y]))

\* an aggregate holding alerts of all four checkers
C1_Witness ==
    /\ Returned("generate_contextual_alerts")
    /\ {CategoryRank(CategoryOf(ret[x])) : x \in 1..Len(ret)} = {1, 2, 3, 4}

(***************************************************************************)
(* C2: for a list of medication names, check_drug_interactions returns one *)
(* Interaction alert for a stored pair when both drugs are listed and none *)
(* when one or neither is, whatever the order and the number of times the  *)
(* drugs are listed; it returns nothing else.                              *)
(***************************************************************************)
IsInteractionFor(a, d1, d2) ==
    /\ CategoryOf(a) = "Interaction"
    /\ DetailsOf(a)[1] = d1
    /\ DetailsOf(a)[3] = d2

StoredPairs == {<<"warfarin", "amiodarone">>, <<"simvastatin", "clarithromycin">>}

C2_InteractionNeedsBothDrugs ==
    (Ended("check_drug_interactions") /\ AllStrings(args.medications.v)) =>
        LET meds == args.medications.v
            listed(d) == \E k \in 1..Len(meds) : meds[k] = Str(d)
        IN  /\ pc = "returned"
            /\ \A pair \in StoredPairs :
                  Cardinality({x \in 1..Len(ret) : IsInteractionFor(ret[x], pair[1], pair[2])})
                      = IF listed(pair[1]) /\ listed(pair[2]) THEN 1 ELSE 0
            /\ \A x \in 1..Len(ret) :
                  \E pair \in StoredPairs : IsInteractionFor(ret[x], pair[1], pair[2])

\* the second drug of a pair listed first, and twice
C2_Witness ==
    /\ Returned("check_drug_interactions")
    /\ args.medications.v = <<Str("amiodarone"), Str("warfarin"), Str("amiodarone")>>
    /\ Len(ret) = 1
    /\ IsInteractionFor(ret[1], "warfarin", "amiodarone")

(***************************************************************************)
(* C3: in check_allergy_alerts, for an allergy of the table and a patient  *)
(* medication, a Cross-reactivity alert is returned iff the medication is  *)
(* in the allergen's cross_reactivity list, always with severity MODERATE; *)
(* an Allergy alert with the entry's severity iff the medication is in its *)
(* medications list; an allergen that is not in the table gives nothing.   *)
(***************************************************************************)
IsAllergyAlertFor(a, category, allergy, med) ==
    /\ CategoryOf(a) = category
    /\ DetailsOf(a)[1] = allergy
    /\ DetailsOf(a)[3] = med

\* the table, as the claim reads it: allergen, stored severity upper-cased,
\* direct medications, cross-reactive medications
AllergyRules ==
    { [allergen |-> "penicillin", severity |-> <<"H","I","G","H">>,
       direct |-> {"amoxicillin", "ampicillin", "penicillin"},
       cross |-> {"cephalosporins"}],
      [allergen |-> "sulfa", severity |-> <<"M","O","D","E","R","A","T","E">>,
       direct |-> {"sulfamethoxazole", "sulfasalazine"},
       cross |-> {}] }

C3_AllergyAndCrossReactivity ==
    Returned("check_allergy_alerts") =>
        LET allergies == args.allergies.v
            meds == args.medications.v
            pairs(allergy, med) ==
                Occurrences(allergies, Str(allergy)) * Occurrences(meds, Str(med))
            medNames == {meds[k].v : k \in {j \in 1..Len(meds) : IsStr(meds[j])}}
        IN  /\ \A rule \in AllergyRules : \A med \in medNames :
                  /\ Count(ret, LAMBDA a : IsAllergyAlertFor(a, "Cross-reactivity", rule.allergen, med))
                        = IF med \in rule.cross THEN pairs(rule.allergen, med) ELSE 0
                  /\ Count(ret, LAMBDA a : IsAllergyAlertFor(a, "Allergy", rule.allergen, med))
                        = IF med \in rule.direct THEN pairs(rule.allergen, med) ELSE 0
            /\ \A x \in 1..Len(ret) :
                  \E rule \in AllergyRules :
                      /\ DetailsOf(ret[x])[1] = rule.allergen
                      /\ Str(rule.allergen) \in Range(allergies)
                      /\ \/ /\ CategoryOf(ret[x]) = "Cross-reactivity"
                            /\ SeverityOf(ret[x]) = <<"M","O","D","E","R","A","T","E">>
                         \/ /\ CategoryOf(ret[x]) = "Allergy"
                            /\ SeverityOf(ret[x]) = rule.severity

\* penicillin stores high: the direct alert is HIGH, the cross-reactivity alert MODERATE
C3_Witness ==
    /\ Returned("check_allergy_alerts")
    /\ args.allergies.v = <<Str("latex"), Str("penicillin")>>
    /\ args.medications.v = <<Str("amoxicillin"), Str("cephalosporins")>>
    /\ Len(ret) = 2
    /\ CategoryOf(ret[1]) = "Allergy" /\ SeverityOf(ret[1]) = <<"H","I","G","H">>
    /\ CategoryOf(ret[2]) = "Cross-reactivity"
    /\ SeverityOf(ret[2]) = <<"M","O","D","E","R","A","T","E">>

(***************************************************************************)
(* C4: check_comorbidity_alerts returns an Age alert for a medication iff  *)
(* age >= 65 and the medication is one of the 'elderly' entry: one per     *)
(* listing of it at 65 and above, none at 64 and below, 0 and negative     *)
(* ages included.                                                          *)
(***************************************************************************)
IsAgeAlertFor(a, med) ==
    /\ CategoryOf(a) = "Age"
    /\ DetailsOf(a)[2] = med

ElderlyRiskMedications == {"benzodiazepines", "anticholinergics"}

C4_AgeAlertIffAtLeast65 ==
    Returned("check_comorbidity_alerts") =>
        LET meds == args.medications.v
            medNames == {meds[k].v : k \in {j \in 1..Len(meds) : IsStr(meds[j])}}
        IN  /\ \A med \in medNames \cup ElderlyRiskMedications :
                  Count(ret, LAMBDA a : IsAgeAlertFor(a, med))
                      = IF args.age >= 65 /\ med \in ElderlyRiskMedications
                        THEN Occurrences(meds, Str(med)) ELSE 0
            /\ args.age <= 64 => Count(ret, LAMBDA a : CategoryOf(a) = "Age") = 0

\* at exactly 65 the Age alert is there
C4_Witness ==
    /\ Returned("check_comorbidity_alerts")
    /\ args.age = 65
    /\ args.comorbidities.v = <<>>
    /\ args.medications.v = <<Str("benzodiazepines")>>
    /\ Len(ret) = 1
    /\ IsAgeAlertFor(ret[1], "benzodiazepines")

(***************************************************************************)
(* C5: check_genetic_alerts called with one marker and one medication      *)
(* returns exactly one Genetic alert when the pair is in GENETIC_ALERTS,   *)
(* with the entry's severity upper-cased and its recommendation unchanged; *)
(* for an unknown marker, or a medication not under the marker, it returns *)
(* the empty list and raises nothing.                                      *)
(***************************************************************************)
\* the table, as the claim reads it
GeneticRules ==
    { [marker |-> "CYP2C19 Poor Metabolizer", med |-> "clopidogrel",
       severity |-> <<"H","I","G","H">>,
       recommendation |-> "Consider alternative antiplatelet therapy (e.g., prasugrel, ticagrelor)."],
      [marker |-> "HLA-B*5701 Positive", med |-> "abacavir",
       severity |-> <<"C","R","I","T","I","C","A","L">>,
       recommendation |-> "Contraindicated. Do not prescribe abacavir."] }

C5_ExactlyOneGeneticAlertPerRule ==
    ( /\ Ended("check_genetic_alerts")
      /\ Len(args.genetic_info.v) = 1 /\ Len(args.medications.v) = 1
      /\ IsStr(args.genetic_info.v[1]) /\ IsStr(args.medications.v[1]) ) =>
        LET marker == args.genetic_info.v[1].v
            med == args.medications.v[1].v
            rules == {r \in GeneticRules : r.marker = marker /\ r.med = med}
        IN  /\ pc = "returned"
            /\ rules = {} => ret = <<>>
            /\ \A r \in rules :
                  /\ Len(ret) = 1
                  /\ CategoryOf(ret[1]) = "Genetic"
                  /\ SeverityOf(ret[1]) = r.severity
                  /\ DetailsOf(ret[1])[1] = marker
                  /\ DetailsOf(ret[1])[3] = med
                  /\ HasRecommendation(ret[1])
                  /\ RecommendationOf(ret[1]) = r.recommendation

\* the critical rule: HLA-B*5701 Positive with abacavir
C5_Witness ==
    /\ Returned("check_genetic_alerts")
    /\ args.genetic_info.v = <<Str("HLA-B*5701 Positive")>>
    /\ args.medications.v = <<Str("abacavir")>>
    /\ Len(ret) = 1
    /\ SeverityOf(ret[1]) = <<"C","R","I","T","I","C","A","L">>

(***************************************************************************)
(* C6: for the example patient generate_contextual_alerts returns four     *)
(* alerts: HIGH Genetic for clopidogrel, HIGH Allergy for amoxicillin,     *)
(* HIGH Interaction for warfarin + amiodarone, MODERATE Age for            *)
(* benzodiazepines, in this order.                                         *)
(***************************************************************************)
IsExampleCall ==
    /\ fn = "generate_contextual_alerts"
    /\ DOMAIN args.patient = DOMAIN ExamplePatient
    /\ args.patient = ExamplePatient

C6_ExamplePatientAlerts ==
    (IsExampleCall /\ pc # "called") =>
        /\ pc = "returned"
        /\ Len(ret) = 4
        /\ [x \in 1..4 |-> CategoryOf(ret[x])] = <<"Genetic", "Allergy", "Interaction", "Age">>
        /\ [x \in 1..4 |-> SeverityOf(ret[x])] =
              << <<"H","I","G","H">>, <<"H","I","G","H">>, <<"H","I","G","H">>,
                 <<"M","O","D","E","R","A","T","E">> >>
        /\ DetailsOf(ret[1])[3] = "clopidogrel"
        /\ DetailsOf(ret[2])[3] = "amoxicillin"
        /\ IsInteractionFor(ret[3], "warfarin", "amiodarone")
        /\ IsAgeAlertFor(ret[4], "benzodiazepines")

C6_Witness ==
    /\ IsExampleCall
    /\ pc = "returned"
    /\ Len(ret) = 4

(***************************************************************************)
(* C7: a patient whose medications key is missing, or present with None,   *)
(* is treated like one with medications = []: generate_contextual_alerts   *)
(* does not raise and returns the empty list.                              *)
(***************************************************************************)
MedicationsMissingOrNone ==
    \/ "medications" \notin DOMAIN args.patient
    \/ args.patient["medications"] = PyNone

C7_MissingOrNoneMedicationsIsEmpty ==
    (Ended("generate_contextual_alerts") /\ MedicationsMissingOrNone) =>
        /\ pc = "returned"
        /\ ret = <<>>

(***************************************************************************)
(* C8: a call whose medications, allergies or genetic_info holds an        *)
(* element that is not a string fails with ValidationError.                *)
(***************************************************************************)
HasNonString(c) == c.t = "list" /\ \E k \in 1..Len(c.v) : ~IsStr(c.v[k])

CallHasNonString ==
    LET record == IF fn = "generate_contextual_alerts" THEN args.patient ELSE args
    IN  \E k \in DOMAIN record \cap {"medications", "allergies", "genetic_info"} :
            HasNonString(record[k])

C8_NonStringElementIsValidationError ==
    (pc # "called" /\ CallHasNonString) =>
        /\ pc = "raised"
        /\ exc = "ValidationError"

(***************************************************************************)
(* C9: every alert returned by any of the functions reads                  *)
(* '[SEVERITY] <Category> alert: <details>' with a category of the six;    *)
(* then '. Recommendation: <text>' follows, with the text of the alert's   *)
(* knowledge-table entry, unless the alert is one that may omit it.        *)
(***************************************************************************)
\* the recommendation the tables store for what the alert is about
TableRecommendations(a) ==
    CASE CategoryOf(a) = "Genetic" ->
            {r.recommendation : r \in {q \in GeneticRules :
                q.marker = DetailsOf(a)[1] /\ q.med = DetailsOf(a)[3]}}
      [] CategoryOf(a) = "Comorbidity" /\ DetailsOf(a)[1] = "chronic_kidney_disease" ->
            {"Avoid or adjust dose; monitor renal function."}
      [] CategoryOf(a) = "Comorbidity" /\ DetailsOf(a)[1] = "elderly" ->
            {"Use with caution; increased risk of falls and confusion."}
      [] CategoryOf(a) = "Age" ->
            {"Use with caution; increased risk of falls and confusion."}
      [] OTHER -> {}

\* '<details>. Recommendation: <text>' closes the alert, the text from the table
EndsWithTableRecommendation(a) ==
    /\ a[Len(a) - 2] = ". "
    /\ a[Len(a) - 1] = "Recommendation: "
    /\ a[Len(a)] \in TableRecommendations(a)

AlertsHaveForm(mayOmit) ==
    pc = "returned" =>
        \A x \in 1..Len(ret) :
            /\ HasAlertHead(ret[x])
            /\ CategoryOf(ret[x]) \notin mayOmit => EndsWithTableRecommendation(ret[x])

\* as claimed: only Interaction and Cross-reactivity alerts may omit the recommendation
C9_OnlyInteractionAndCrossReactivityOmit ==
    AlertsHaveForm({"Interaction", "Cross-reactivity"})

\* amended: a direct Allergy alert omits it too
C9_AllergyAlertsOmitToo ==
    AlertsHaveForm({"Allergy", "Interaction", "Cross-reactivity"})

\* an Allergy alert without a recommendation next to a Genetic alert with one
C9_Witness ==
    /\ pc = "returned"
    /\ \E x, y \in 1..Len(ret) :
          /\ CategoryOf(ret[x]) = "Genetic" /\ EndsWithTableRecommendation(ret[x])
          /\ CategoryOf(ret[y]) = "Allergy" /\ ~HasRecommendation(ret[y])

(***************************************************************************)
(* C10: in check_comorbidity_alerts nothing is deduplicated.  With 'elderly'*)
(* among the comorbidities and age >= 65, an elderly-risk medication gets  *)
(* a Comorbidity alert and an Age alert; without 'elderly' only the Age    *)
(* alert; below 65 only the Comorbidity alert.  Every Comorbidity alert    *)
(* comes before every Age alert.                                           *)
(***************************************************************************)
IsElderlyComorbidityAlertFor(a, med) ==
    /\ CategoryOf(a) = "Comorbidity"
    /\ DetailsOf(a)[1] = "elderly"
    /\ DetailsOf(a)[3] = med

C10_AgeRuleDoesNotDeduplicate ==
    Returned("check_comorbidity_alerts") =>
        LET meds == args.medications.v
            listedElderly == Occurrences(args.comorbidities.v, Str("elderly"))
        IN  /\ \A med \in ElderlyRiskMedications :
                  /\ Count(ret, LAMBDA a : IsElderlyComorbidityAlertFor(a, med))
                        = listedElderly * Occurrences(meds, Str(med))
                  /\ (args.age >= 65 /\ Occurrences(meds, Str(med)) > 0) =>
                        Count(ret, LAMBDA a : IsAgeAlertFor(a, med)) > 0
                  /\ args.age < 65 => Count(ret, LAMBDA a : IsAgeAlertFor(a, med)) = 0
            /\ \A x, y \in 1..Len(ret) :
                  (CategoryOf(ret[x]) = "Comorbidity" /\ CategoryOf(ret[y]) = "Age") => x < y

\* the duplicate: one medication, both alerts
C10_Witness ==
    /\ Returned("check_comorbidity_alerts")
    /\ args.age >= 65
    /\ Str("elderly") \in Range(args.comorbidities.v)
    /\ args.medications.v = <<Str("anticholinergics")>>
    /\ Len(ret) = 2
    /\ IsElderlyComorbidityAlertFor(ret[1], "anticholinergics")
    /\ IsAgeAlertFor(ret[2], "anticholinergics")

====
